---- MODULE Spec2Model ----
(***************************************************************************)
(* Neuron layers of block/nn/layers.py (BaseNeurons, ConvNeurons,          *)
(* PolyConvNeurons) as a state machine: construction, forward calls,       *)
(* optimizer updates of the leak parameter, and the hyperparameter         *)
(* snapshot.  The integration strategies (block.nn.methods) and the        *)
(* surrogate spike function (block.nn.surrogate) are imported by           *)
(* layers.py but their files are not part of src/; they are modelled from  *)
(* the specification (sections 4.1 - 4.3).                                 *)
(*                                                                         *)
(* Numbers.  Leak values are integers in tenths (9 is 0.9, -3 is -0.3).    *)
(* Currents and potentials are integers in units of 1/Unit with            *)
(* Unit = 10^(TLen+1), which makes every product with a leak value exact   *)
(* over TLen timesteps when currents and initial potentials are given in   *)
(* tenths.                                                                 *)
(***************************************************************************)
EXTENDS Integers, Sequences, FiniteSets, TLC

VARIABLES
    phase,    \* "new" (before __init__), "ready" (constructed), "failed" (__init__ raised)
    self,     \* the layer object's fields
    kwargs,   \* the **kwargs the constructor was called with
    op,       \* the operation performed last
    call,     \* the last BaseNeurons.forward call: arguments, handed beta, result
    conv      \* the last ConvNeurons.forward call: current, strategy input, output

vars == <<phase, self, kwargs, op, call, conv>>

\* Python's None; a record, as every optional value of the model is one
None == [none |-> TRUE]

\* a raised exception
Raised(name) == [exc |-> name]

----------------------------------------------------------------------------
(* Bounds of the model. *)

TLen == 3        \* timesteps of a trace (t_len)
NNeurons == 2    \* neurons of the dense layer
ConvB == 1       \* batch items of a convolutional current
ConvN == 2       \* output channels
ConvT == 2       \* timesteps of a convolutional current
ConvH == 2       \* rows
ConvW == 2       \* columns

----------------------------------------------------------------------------
(* Fixed-point arithmetic. *)

RECURSIVE Pow(_, _)
Pow(b, k) == IF k = 0 THEN 1 ELSE b * Pow(b, k - 1)

Unit == Pow(10, TLen + 1)

\* k tenths as a value in units of 1/Unit
Tenth(k) == k * (Unit \div 10)

\* beta * v for a leak value b in tenths
MulBeta(b, v) == (b * v) \div 10

----------------------------------------------------------------------------
(* Tensors: a shape and the elements in row-major (contiguous) order.      *)
(* Indices are 0-based as in the source; sequences are 1-based.            *)

\* the sequence f[lo], ..., f[hi], every element computed once
RECURSIVE Slice(_, _, _)
Slice(f, lo, hi) ==
    IF lo > hi THEN <<>>
    ELSE IF lo = hi THEN <<f[lo]>>
    ELSE LET mid == (lo + hi) \div 2
         IN  Slice(f, lo, mid) \o Slice(f, mid + 1, hi)

\* the sequence f[1], ..., f[n]
AsTuple(f, n) == Slice(f, 1, n)

RECURSIVE Prod(_)
Prod(shape) == IF shape = <<>> THEN 1 ELSE Head(shape) * Prod(Tail(shape))

RECURSIVE OffsetUpTo(_, _, _)
OffsetUpTo(shape, idx, k) ==
    IF k = 0 THEN 0 ELSE OffsetUpTo(shape, idx, k - 1) * shape[k] + idx[k]

\* row-major offset of a 0-based index tuple
Offset(shape, idx) == OffsetUpTo(shape, idx, Len(shape))

RECURSIVE Stride(_, _)
Stride(shape, k) == IF k = Len(shape) THEN 1 ELSE shape[k + 1] * Stride(shape, k + 1)

\* the 0-based index tuple of a row-major offset
Unravel(shape, off) ==
    [k \in 1..Len(shape) |-> (off \div Stride(shape, k)) % shape[k]]

At(T, idx) == T.data[Offset(T.shape, idx) + 1]

\* torch.Tensor.permute(*dims): dimension k of the result is dimension dims[k] of T
Permute(T, dims) ==
    LET newShape == [k \in 1..Len(dims) |-> T.shape[dims[k] + 1]]
        src(j) == [d \in 1..Len(dims) |->
                      j[CHOOSE k \in 1..Len(dims) : dims[k] + 1 = d]]
    IN  [shape |-> newShape,
         data  |-> AsTuple([o \in 1..Prod(newShape) |->
                               At(T, src(Unravel(newShape, o - 1)))], Prod(newShape))]

\* torch.Tensor.flatten(start_dim, end_dim): merges the dimensions, elements stay in place
Flatten(T, start_dim, end_dim) ==
    LET merged == Prod(SubSeq(T.shape, start_dim + 1, end_dim + 1))
    IN  [shape |-> SubSeq(T.shape, 1, start_dim) \o <<merged>>
                     \o SubSeq(T.shape, end_dim + 2, Len(T.shape)),
         data  |-> T.data]

\* torch.Tensor.view(*shape): a new shape over the same elements
View(T, shape) == [shape |-> shape, data |-> T.data]

----------------------------------------------------------------------------
(* block.nn.surrogate and block.nn.methods, modelled from the               *)
(* specification (4.1 surrogate spike function, 4.2 Sequential, 4.3         *)
(* Fast-Linear).                                                            *)

RETURN_SPIKES == "spikes"
RETURN_POTENTIALS == "potentials"

\* the firing threshold: a potential of 1.0
Threshold == Unit

\* the mutated forward rule: a strict comparison
SpikeFnStrict(u, scale) == IF u > 0 THEN 1 ELSE 0

\* forward value of the surrogate spike function at u = potential - threshold
SpikeFn(u, scale) == IF u >= 0 THEN 1 ELSE 0

MethodStandard(t_len, spike_func, scale, single_spike, integrator, recurrent_source) ==
    [kind |-> "MethodStandard", t_len |-> t_len, spike_func |-> spike_func,
     scale |-> scale, single_spike |-> single_spike, integrator |-> integrator,
     recurrent_source |-> recurrent_source]

MethodFastNaive(t_len, spike_func, scale, beta) ==
    [kind |-> "MethodFastNaive", t_len |-> t_len, spike_func |-> spike_func,
     scale |-> scale, beta |-> beta]

\* the leak value of neuron n (1-based) of a per-neuron or single-value beta
BetaAt(beta, n) == IF Len(beta) = 1 THEN beta[1] ELSE beta[n]

\* the mutated reset: the potential is left as it is
ResetNever(integrator, pre, s) == pre

\* reset by subtraction of the emitted spike; none in integrator mode
Reset(integrator, pre, s) == IF integrator THEN pre ELSE pre - s * Unit

\* the mutated mask: the spike function's value is emitted as it is
MaskNever(single_spike, fired, raw) == raw

\* the has-fired mask of single_spike mode
Mask(single_spike, fired, raw) == IF single_spike /\ fired THEN 0 ELSE raw

\* Sequential strategy, one (batch item, neuron): timesteps 1..t of the current
\* trace c with leak b (tenths) from the initial potential v0.
\*   pre    potential after leak-and-integrate, before the reset
\*   raw    the spike function's forward value at pre - Threshold
\*   spikes the emitted spike (raw under the has-fired mask of single_spike)
\*   post   potential after the reset by subtraction
RECURSIVE SeqRow(_, _, _, _, _)
SeqRow(m, c, b, v0, t) ==
    IF t = 0
    THEN [pre |-> <<>>, raw |-> <<>>, spikes |-> <<>>, post |-> <<>>, fired |-> FALSE]
    ELSE LET r     == SeqRow(m, c, b, v0, t - 1)
             vprev == IF t = 1 THEN v0 ELSE r.post[t - 1]
             pre   == MulBeta(b, vprev) + c[t]
             raw   == SpikeFn(pre - Threshold, m.scale)
             s     == Mask(m.single_spike, r.fired, raw)
             post  == Reset(m.integrator, pre, s)
         IN  [pre    |-> Append(r.pre, pre),
              raw    |-> Append(r.raw, raw),
              spikes |-> Append(r.spikes, s),
              post   |-> Append(r.post, post),
              fired  |-> r.fired \/ s = 1]

RECURSIVE SumTo(_, _)
SumTo(f, t) == IF t = 0 THEN 0 ELSE SumTo(f, t - 1) + f[t]

\* The closed form with the initial potential's term left out.
FastPotentialNoInit(c, b, v0, t) ==
    SumTo([tau \in 1..t |-> (c[tau] * Pow(b, t - tau)) \div Pow(10, t - tau)], t)

\* Fast-Linear closed form at timestep t (1-based):
\*   sum over tau <= t of beta^(t-tau) * c[tau]  +  beta^t * v0
\* (beta^(t+1) * v_init with the specification's 0-based t)
FastPotential(c, b, v0, t) ==
    SumTo([tau \in 1..t |-> (c[tau] * Pow(b, t - tau)) \div Pow(10, t - tau)], t)
      + (v0 * Pow(b, t)) \div Pow(10, t)

\* Fast-Linear strategy, one (batch item, neuron): the spike function applied to
\* the closed-form potential of every timestep at once.
FastRow(m, c, b, v0, t) ==
    LET pot == AsTuple([k \in 1..t |-> FastPotential(c, b, v0, k)], t)
        raw == AsTuple([k \in 1..t |-> SpikeFn(pot[k] - Threshold, m.scale)], t)
    IN  [pre |-> pot, raw |-> raw, spikes |-> raw, post |-> pot,
         fired |-> \E k \in 1..t : raw[k] = 1]

\* BaseNeurons.get_recurrent_current: the source of the recurrent current
get_recurrent_current(spikes) == [raised |-> Raised("NotImplementedError")]

\* one strategy, one row of the current tensor: r is the 0-based row b * N + n
RowOf(m, current, beta, v_init, r) ==
    LET N  == current.shape[2]
        T  == current.shape[3]
        c  == SubSeq(current.data, r * T + 1, r * T + T)
        n  == (r % N) + 1
        v0 == IF v_init = None THEN 0 ELSE v_init.data[r + 1]
    IN  IF m.kind = "MethodStandard"
        THEN SeqRow(m, c, BetaAt(beta, n), v0, T)
        ELSE FastRow(m, c, BetaAt(m.beta, n), v0, T)

\* the traces of rows lo .. hi, row after row
RECURSIVE Rows(_, _, _, _, _, _)
Rows(m, current, beta, v_init, lo, hi) ==
    IF lo > hi
    THEN [pre |-> <<>>, raw |-> <<>>, spikes |-> <<>>, post |-> <<>>]
    ELSE IF lo = hi
    THEN LET row == RowOf(m, current, beta, v_init, lo)
         IN  [pre |-> row.pre, raw |-> row.raw, spikes |-> row.spikes, post |-> row.post]
    ELSE LET mid == (lo + hi) \div 2
             a   == Rows(m, current, beta, v_init, lo, mid)
             b   == Rows(m, current, beta, v_init, mid + 1, hi)
         IN  [pre    |-> a.pre \o b.pre,
              raw    |-> a.raw \o b.raw,
              spikes |-> a.spikes \o b.spikes,
              post   |-> a.post \o b.post]

\* The strategy applied to a current tensor (batch x neurons x time): every
\* (batch item, neuron) row on its own, with that neuron's leak value.  A
\* Sequential strategy with a recurrent source asks it for the current of the
\* spikes of the step before, from the second timestep on.
MethodCall(m, current, beta, v_init, return_type) ==
    LET all == Rows(m, current, beta, v_init, 0, current.shape[1] * current.shape[2] - 1)
        tensor(data) == [shape |-> current.shape, data |-> data]
    IN  IF m.kind = "MethodStandard" /\ m.recurrent_source # None
           /\ current.shape[3] >= 2
        THEN [error |-> get_recurrent_current(None).raised]
        ELSE [error  |-> None,
              pre    |-> tensor(all.pre),
              raw    |-> tensor(all.raw),
              spikes |-> tensor(all.spikes),
              post   |-> tensor(all.post),
              ret    |-> IF return_type = RETURN_SPIKES
                         THEN tensor(all.spikes) ELSE tensor(all.post)]

----------------------------------------------------------------------------
(* block/nn/layers.py *)

METHOD_STANDARD == "standard"
METHOD_FAST_NAIVE == "fast_naive"
METHOD_FAST_OPTIMISED == "fast_optimised"

\* kwargs.get(key, default)
KwGet(kw, key, default) == IF key \in DOMAIN kw THEN kw[key] ELSE default

Clamp(v, lo, hi) == IF v < lo THEN lo ELSE IF v > hi THEN hi ELSE v

\* the mutated property: the stored parameter as it is
beta_unclamped(obj) == obj._beta

\* BaseNeurons.beta: torch.clamp(self._beta, min=0.00, max=1), a new tensor
beta(obj) == [n \in 1..Len(obj._beta) |-> Clamp(obj._beta[n], 0, 10)]

\* the mutated selection: single_spike and integrator handed over in each other's place
get_method_func_swapped(obj, t_len, kw) ==
    IF obj._method = METHOD_STANDARD
    THEN [raised |-> None,
          value  |-> MethodStandard(t_len, obj._spike_func, obj._scale,
                        KwGet(kw, "integrator", FALSE),
                        KwGet(kw, "single_spike", FALSE),
                        IF KwGet(kw, "recurrent", FALSE)
                        THEN [fn |-> "get_recurrent_current"] ELSE None)]
    ELSE IF obj._method = METHOD_FAST_NAIVE
    THEN [raised |-> None,
          value  |-> MethodFastNaive(t_len, obj._spike_func, obj._scale, beta(obj))]
    ELSE IF obj._method = METHOD_FAST_OPTIMISED
    THEN [raised |-> Raised("NotImplementedError"), value |-> None]
    ELSE [raised |-> None, value |-> None]

\* the mutated selection: the single_spike keyword is not read
get_method_func_no_single_spike(obj, t_len, kw) ==
    IF obj._method = METHOD_STANDARD
    THEN [raised |-> None,
          value  |-> MethodStandard(t_len, obj._spike_func, obj._scale,
                        FALSE,
                        KwGet(kw, "integrator", FALSE),
                        IF KwGet(kw, "recurrent", FALSE)
                        THEN [fn |-> "get_recurrent_current"] ELSE None)]
    ELSE IF obj._method = METHOD_FAST_NAIVE
    THEN [raised |-> None,
          value  |-> MethodFastNaive(t_len, obj._spike_func, obj._scale, beta(obj))]
    ELSE IF obj._method = METHOD_FAST_OPTIMISED
    THEN [raised |-> Raised("NotImplementedError"), value |-> None]
    ELSE [raised |-> None, value |-> None]

\* BaseNeurons._get_method_func: the strategy of the configured method; raises for
\* fast_optimised, and falls off the end (returns None) for any other method
get_method_func(obj, t_len, kw) ==
    IF obj._method = METHOD_STANDARD
    THEN [raised |-> None,
          value  |-> MethodStandard(t_len, obj._spike_func, obj._scale,
                        KwGet(kw, "single_spike", FALSE),
                        KwGet(kw, "integrator", FALSE),
                        IF KwGet(kw, "recurrent", FALSE)
                        THEN [fn |-> "get_recurrent_current"] ELSE None)]
    ELSE IF obj._method = METHOD_FAST_NAIVE
    THEN [raised |-> None,
          value  |-> MethodFastNaive(t_len, obj._spike_func, obj._scale, beta(obj))]
    ELSE IF obj._method = METHOD_FAST_OPTIMISED
    THEN [raised |-> Raised("NotImplementedError"), value |-> None]
    ELSE [raised |-> None, value |-> None]

\* BaseNeurons.__init__: the fields in the order they are assigned; the strategy
\* is built last, from the fields set before it
BaseNeurons_init(method, t_len, beta_init, beta_requires_grad, spike_func, scale, kw) ==
    LET obj == [_method |-> method, _t_len |-> t_len, _beta_init |-> beta_init,
                _beta_requires_grad |-> beta_requires_grad,
                _spike_func |-> spike_func, _scale |-> scale,
                _beta |-> beta_init, _method_func |-> None]
        mf  == get_method_func(obj, t_len, kw)
    IN  IF mf.raised # None
        THEN [raised |-> mf.raised]
        ELSE [raised |-> None, obj |-> [obj EXCEPT !._method_func = mf.value]]

\* BBModel.hyperparams (brainbox, outside this repository): it holds none of the
\* fields BaseNeurons.__init__ sets
BBModel_hyperparams == [k \in {} |-> None]

\* type(f).__name__ of a spike function
ClassName(f) == f.type

\* BaseNeurons.hyperparams: {**super().hyperparams, "method": ..., ...}
hyperparams(obj) ==
    [method |-> obj._method, t_len |-> obj._t_len, beta_init |-> obj._beta_init,
     beta_requires_grad |-> obj._beta_requires_grad,
     spike_func |-> ClassName(obj._spike_func)] @@ BBModel_hyperparams

\* the potentials the last successful call ended with, per (batch item, neuron)
LastPotential ==
    IF call = None \/ call.res.error # None
    THEN None
    ELSE LET sh == call.res.post.shape
         IN  [shape |-> <<sh[1], sh[2]>>,
              data  |-> AsTuple([r \in 1..(sh[1] * sh[2]) |->
                                    call.res.post.data[r * sh[3]]], sh[1] * sh[2])]

\* the mutated forward: without v_init the potential of the last call is carried on
BaseNeurons_forward_carried(x, v_init, return_type) ==
    IF self._method_func = None
    THEN [error |-> Raised("TypeError")]
    ELSE MethodCall(self._method_func, x, beta(self),
                    IF v_init = None /\ LastPotential # None
                       /\ LastPotential.shape = <<x.shape[1], x.shape[2]>>
                    THEN LastPotential ELSE v_init,
                    return_type)

\* BaseNeurons.forward: self._method_func(x, self.beta, v_init, return_type);
\* calling the None of an unknown method is a TypeError
BaseNeurons_forward(x, v_init, return_type) ==
    IF self._method_func = None
    THEN [error |-> Raised("TypeError")]
    ELSE MethodCall(self._method_func, x, beta(self), v_init, return_type)

\* what is kept of a forward call: its arguments, the leak coefficient handed to
\* the strategy, the result, and whether an earlier call had left potentials
CallRecord(x, v_init, return_type, res) ==
    [x |-> x, v_init |-> v_init, return_type |-> return_type,
     beta |-> beta(self), res |-> res, repeat |-> LastPotential # None]

\* the mutated forward: the view is returned without the permute back
ConvNeurons_forward_unpermuted(current, v_init, return_type) ==
    LET b   == current.shape[1]
        n   == current.shape[2]
        t   == current.shape[3]
        h   == current.shape[4]
        w   == current.shape[5]
        fed == Flatten(Permute(current, <<0, 1, 3, 4, 2>>), 1, 3)
        res == BaseNeurons_forward(fed, v_init, return_type)
    IN  [current |-> current, fed |-> fed, res |-> res,
         out |-> IF res.error # None THEN None
                 ELSE IF ~self._flatten
                      THEN View(res.ret, <<b, n, t, h, w>>)
                      ELSE res.ret]

\* ConvNeurons.forward after current = self._to_current(x)
ConvNeurons_forward(current, v_init, return_type) ==
    LET b   == current.shape[1]
        n   == current.shape[2]
        t   == current.shape[3]
        h   == current.shape[4]
        w   == current.shape[5]
        fed == Flatten(Permute(current, <<0, 1, 3, 4, 2>>), 1, 3)
        res == BaseNeurons_forward(fed, v_init, return_type)
    IN  [current |-> current, fed |-> fed, res |-> res,
         out |-> IF res.error # None THEN None
                 ELSE IF ~self._flatten
                      THEN Permute(View(res.ret, <<b, n, h, w, t>>), <<0, 1, 4, 2, 3>>)
                      ELSE res.ret]

\* PolyConvNeurons.forward after current = self._to_current(x)
PolyConvNeurons_forward(current, v_init, return_type) ==
    LET b   == current.shape[1]
        n   == current.shape[2]
        t   == current.shape[3]
        h   == current.shape[4]
        w   == current.shape[5]
        fed == Flatten(Permute(current, <<0, 1, 3, 4, 2>>), 1, 3)
        res == BaseNeurons_forward(fed, v_init, return_type)
    IN  [current |-> current, fed |-> fed, res |-> res,
         out |-> IF res.error # None THEN None
                 ELSE IF ~self._flatten
                      THEN Permute(View(res.ret, <<b, n, h, w, t>>), <<0, 1, 4, 2, 3>>)
                      ELSE res.ret]

----------------------------------------------------------------------------
(* Actions. *)

\* BaseNeurons(method, t_len, beta_init, beta_requires_grad, spike_func, scale, **kw)
Construct(method, t_len, beta_init, beta_requires_grad, spike_func, scale, kw) ==
    /\ phase = "new"
    /\ LET r == BaseNeurons_init(method, t_len, beta_init, beta_requires_grad,
                                 spike_func, scale, kw)
       IN  IF r.raised # None
           THEN /\ phase' = "failed"
                /\ self' = [_method |-> method, raised |-> r.raised]
           ELSE /\ phase' = "ready"
                /\ self' = [cls |-> "BaseNeurons"] @@ r.obj
    /\ kwargs' = kw
    /\ op' = "construct"
    /\ UNCHANGED <<call, conv>>

\* ConvNeurons(...) or PolyConvNeurons(...): the base constructor, then _flatten
ConvConstruct(cls, method, t_len, beta_init, beta_requires_grad, spike_func, scale, kw) ==
    /\ phase = "new"
    /\ LET r == BaseNeurons_init(method, t_len, beta_init, beta_requires_grad,
                                 spike_func, scale, kw)
       IN  IF r.raised # None
           THEN /\ phase' = "failed"
                /\ self' = [_method |-> method, raised |-> r.raised]
           ELSE /\ phase' = "ready"
                /\ self' = [cls |-> cls, _flatten |-> KwGet(kw, "flatten", FALSE)]
                              @@ r.obj
    /\ kwargs' = kw
    /\ op' = "construct"
    /\ UNCHANGED <<call, conv>>

\* layer(current, v_init, return_type) on a dense layer, after its current transform
Forward(x, v_init, return_type) ==
    /\ phase = "ready"
    /\ self.cls = "BaseNeurons"
    /\ call' = CallRecord(x, v_init, return_type,
                          BaseNeurons_forward(x, v_init, return_type))
    /\ op' = "forward"
    /\ UNCHANGED <<phase, self, kwargs, conv>>

ConvForward(current, v_init, return_type) ==
    /\ phase = "ready"
    /\ self.cls = "ConvNeurons"
    /\ LET r == ConvNeurons_forward(current, v_init, return_type)
       IN  /\ conv' = [current |-> r.current, fed |-> r.fed, out |-> r.out,
                       return_type |-> return_type]
           /\ call' = CallRecord(r.fed, v_init, return_type, r.res)
    /\ op' = "forward"
    /\ UNCHANGED <<phase, self, kwargs>>

PolyConvForward(current, v_init, return_type) ==
    /\ phase = "ready"
    /\ self.cls = "PolyConvNeurons"
    /\ LET r == PolyConvNeurons_forward(current, v_init, return_type)
       IN  /\ conv' = [current |-> r.current, fed |-> r.fed, out |-> r.out,
                       return_type |-> return_type]
           /\ call' = CallRecord(r.fed, v_init, return_type, r.res)
    /\ op' = "forward"
    /\ UNCHANGED <<phase, self, kwargs>>

\* an optimizer step between calls: a trainable leak parameter gets a new value
OptimizerStep(new) ==
    /\ phase = "ready"
    /\ self._beta_requires_grad
    /\ Len(new) = Len(self._beta)
    /\ new # self._beta
    /\ self' = [self EXCEPT !._beta = new]
    /\ op' = "optimizer"
    /\ UNCHANGED <<phase, kwargs, call, conv>>

Init ==
    /\ phase = "new"
    /\ self = None
    /\ kwargs = None
    /\ op = "init"
    /\ call = None
    /\ conv = None

----------------------------------------------------------------------------
(* Inputs. *)

\* spike functions: FastSigmoid.apply (the default) and the apply of another
\* autograd function; type(f).__name__ is the same for both
SpikeFuncs ==
    { [fn |-> "FastSigmoid.apply", type |-> "builtin_function_or_method"],
      [fn |-> "OtherSurrogate.apply", type |-> "builtin_function_or_method"] }

FastSigmoid_apply == [fn |-> "FastSigmoid.apply", type |-> "builtin_function_or_method"]

\* stored leak values in tenths: below 0, inside (0, 1), above 1
BetaSeq == <<-3, 5, 9, 17>>

\* a leak vector of a length (one value, or one value per neuron): the values of
\* BetaSeq from the i-th on, cyclically
BetaVec(len, i) == AsTuple([n \in 1..len |-> BetaSeq[((i + n - 2) % Len(BetaSeq)) + 1]], len)

BetaVecs(len) == { BetaVec(len, i) : i \in 1..Len(BetaSeq) }

\* the leak initialisations of the dynamics: <<-0.3>>, <<0.9>>, and per-neuron
\* vectors starting with -0.3 and with 0.9
DynBetaInits == { BetaVec(len, i) : len \in {1, NNeurons}, i \in {1, 3} }

\* currents in tenths
CurVals == {5, 15}

Traces == [1..TLen -> CurVals]

\* a dense current (1 x NNeurons x TLen): neuron n gets the trace rotated by n - 1
DenseCurrent(tr) ==
    [shape |-> <<1, NNeurons, TLen>>,
     data  |-> AsTuple([o \in 1..(NNeurons * TLen) |->
                   Tenth(tr[((((o - 1) % TLen) + ((o - 1) \div TLen)) % TLen) + 1])],
                   NNeurons * TLen)]

HalfPotential == [shape |-> <<1, NNeurons>>, data |-> AsTuple([n \in 1..NNeurons |-> Tenth(5)], NNeurons)]

\* (v_init, return_type) of a dense forward call
DynCallArgs ==
    { <<None, RETURN_SPIKES>>, <<HalfPotential, RETURN_SPIKES>>, <<None, RETURN_POTENTIALS>> }

ReturnTypes == {RETURN_SPIKES, RETURN_POTENTIALS}

Bools == {TRUE, FALSE}

NoKwargs == [k \in {} |-> None]

\* keyword arguments of the dynamics: single_spike and integrator, no recurrence
DynKwargs == [single_spike : Bools, integrator : Bools]

\* keyword arguments of the configuration space: none, or all three flags
AllKwargs ==
    { NoKwargs } \cup [recurrent : Bools, single_spike : Bools, integrator : Bools]

\* a convolutional current (ConvB x ConvN x ConvT x ConvH x ConvW): the element at
\* row-major offset o is ((o * m) mod 17) tenths
ConvShape == <<ConvB, ConvN, ConvT, ConvH, ConvW>>

ConvCurrent(m) ==
    [shape |-> ConvShape,
     data  |-> AsTuple([o \in 1..Prod(ConvShape) |-> Tenth((o * m) % 17)], Prod(ConvShape))]

ConvCodes == {1, 3, 5, 7}

----------------------------------------------------------------------------
(* Specifications. *)

\* Dynamics: standard and fast_naive layers, every current trace, optimizer steps.
Next ==
    \/ \E kw \in DynKwargs, rg \in Bools, b \in DynBetaInits :
          Construct(METHOD_STANDARD, TLen, b, rg, FastSigmoid_apply, 100, kw)
    \/ \E rg \in Bools, b \in DynBetaInits :
          Construct(METHOD_FAST_NAIVE, TLen, b, rg, FastSigmoid_apply, 100, NoKwargs)
    \/ \E tr \in Traces, a \in DynCallArgs :
          Forward(DenseCurrent(tr), a[1], a[2])
    \/ \E new \in BetaVecs(1) \cup BetaVecs(NNeurons) : OptimizerStep(new)

Spec == Init /\ [][Next]_vars

\* Configuration: every method and keyword combination, a few currents.
NextCfg ==
    \/ \E method \in {METHOD_STANDARD, METHOD_FAST_NAIVE, METHOD_FAST_OPTIMISED, "fast"},
          kw \in AllKwargs, rg \in Bools, sf \in SpikeFuncs, scale \in {10, 100} :
          \E b \in {<<9>>, <<17>>} :
             Construct(method, TLen, b, rg, sf, scale, kw)
    \/ \E c \in CurVals :
          Forward(DenseCurrent([t \in 1..TLen |-> c]), None, RETURN_SPIKES)

SpecCfg == Init /\ [][NextCfg]_vars

\* Convolutional layers: the reshape around the strategy.
NextConv ==
    \/ \E cls \in {"ConvNeurons", "PolyConvNeurons"},
          method \in {METHOD_STANDARD, METHOD_FAST_NAIVE}, flatten \in Bools,
          b \in {<<9>>, <<5>>} :
          ConvConstruct(cls, method, ConvT, b, FALSE, FastSigmoid_apply, 10,
                        [flatten |-> flatten])
    \/ \E m \in ConvCodes, rt \in ReturnTypes : ConvForward(ConvCurrent(m), None, rt)
    \/ \E m \in ConvCodes, rt \in ReturnTypes : PolyConvForward(ConvCurrent(m), None, rt)

SpecConv == Init /\ [][NextConv]_vars

----------------------------------------------------------------------------
(* Properties. *)

\* the last forward call returned traces
CallOk == call # None /\ call.res.error = None

CallT == call.x.shape[3]
CallN == call.x.shape[2]
CallRows == 0..(call.x.shape[1] * call.x.shape[2] - 1)

\* element t (1-based) of row r (0-based) of a trace of the last call
Elem(tensor, r, t) == tensor.data[r * CallT + t]

\* the initial potential of row r in the last call
CallV0(r) == IF call.v_init = None THEN 0 ELSE call.v_init.data[r + 1]

\* the leak value handed to the strategy for row r in the last call
CallBeta(r) == BetaAt(call.beta, (r % CallN) + 1)

\* C1: in every forward call the leak coefficient handed to the strategy is, per
\* neuron, the stored value clamped to [0, 1] (below 0 gives 0, above 1 gives 1,
\* otherwise the stored value), and the call leaves the stored parameter as it was.
C1_LeakClampedOnRead ==
    [][op' = "forward" =>
         /\ self'._beta = self._beta
         /\ Len(call'.beta) = Len(self._beta)
         /\ \A n \in 1..Len(self._beta) :
               call'.beta[n] = IF self._beta[n] < 0 THEN 0
                               ELSE IF self._beta[n] > 10 THEN 10
                               ELSE self._beta[n]]_vars

\* a forward call after an optimizer update, with a stored value below 0 handed
\* over as 0 and one above 1 handed over as 1
C1_Witness ==
    /\ op = "forward"
    /\ self._beta # self._beta_init
    /\ \E n \in 1..Len(self._beta) : self._beta[n] < 0 /\ call.beta[n] = 0
    /\ \E n \in 1..Len(self._beta) : self._beta[n] > 10 /\ call.beta[n] = 10

\* C2: a fast_naive layer configured with recurrent=True is refused at construction
\* or at the start of forward: it never produces an output trace.
C2_RecurrentFastNaiveRefused ==
    ~ ( /\ phase = "ready"
        /\ self._method = METHOD_FAST_NAIVE
        /\ KwGet(kwargs, "recurrent", FALSE)
        /\ CallOk )

\* C3: construction succeeds if and only if the method is standard or fast_naive,
\* and every constructed layer holds a usable strategy.
C3_ConstructionIffImplemented ==
    /\ phase = "ready" =>
          /\ self._method \in {METHOD_STANDARD, METHOD_FAST_NAIVE}
          /\ self._method_func # None
    /\ phase = "failed" =>
          self._method \notin {METHOD_STANDARD, METHOD_FAST_NAIVE}

\* C4: the hyperparameter snapshot holds the method, the timestep count, the leak
\* initialisation, the trainability flag, the identity of the configured spike
\* function (different for different spike functions) and the scale, each as
\* given at construction.
C4_SnapshotHasSixItems ==
    phase = "ready" =>
        LET hp == hyperparams(self)
        IN  /\ {"method", "t_len", "beta_init", "beta_requires_grad", "spike_func", "scale"}
                  \subseteq DOMAIN hp
            /\ hp.method = self._method
            /\ hp.t_len = self._t_len
            /\ hp.beta_init = self._beta_init
            /\ hp.beta_requires_grad = self._beta_requires_grad
            /\ hp.scale = self._scale
            /\ \A g \in SpikeFuncs :
                  g # self._spike_func =>
                     hyperparams([self EXCEPT !._spike_func = g]).spike_func # hp.spike_func

\* C5: a forward call leaves the layer's fields (the stored leak parameter and the
\* strategy among them) unchanged, its result is the strategy's result for the
\* call's own arguments and the stored parameters, whatever calls came before,
\* and the potential of the first timestep starts from the supplied initial
\* potential or 0.
C5_ForwardStateless ==
    [][op' = "forward" =>
         /\ self' = self
         /\ call'.res =
               IF self._method_func = None
               THEN [error |-> Raised("TypeError")]
               ELSE MethodCall(self._method_func, call'.x, beta(self),
                               call'.v_init, call'.return_type)
         /\ call'.res.error = None =>
               \A r \in 0..(call'.x.shape[1] * call'.x.shape[2] - 1) :
                  LET T  == call'.x.shape[3]
                      n  == (r % call'.x.shape[2]) + 1
                      b  == IF self._method_func.kind = "MethodStandard"
                            THEN BetaAt(beta(self), n)
                            ELSE BetaAt(self._method_func.beta, n)
                      v0 == IF call'.v_init = None THEN 0 ELSE call'.v_init.data[r + 1]
                  IN  10 * call'.res.pre.data[r * T + 1]
                         = b * v0 + 10 * call'.x.data[r * T + 1]]_vars

\* a call without initial potential that follows a call which left potentials,
\* and itself leaves a potential other than 0
C5_Witness ==
    /\ op = "forward"
    /\ CallOk
    /\ call.repeat
    /\ call.v_init = None
    /\ \E r \in CallRows : Elem(call.res.post, r, CallT) # 0

\* C6: in a standard layer, at every timestep the pre-reset potential is beta times
\* the post-reset potential of the step before (the initial potential or 0 at the
\* first step) plus the current; without integrator mode the post-reset potential
\* is that value minus exactly 1 when a spike is emitted and that value otherwise;
\* in integrator mode it is never reduced.  For beta = 0.9, constant current 0.5
\* and no initial potential the pre-reset trace starts 0.5, 0.95, 1.355 and the
\* first spike is at the third timestep.
C6_SequentialResetBySubtraction ==
    (phase = "ready" /\ self._method = METHOD_STANDARD /\ CallOk) =>
        \A r \in CallRows :
           /\ \A t \in 1..CallT :
                 LET vprev == IF t = 1 THEN CallV0(r) ELSE Elem(call.res.post, r, t - 1)
                     pre   == Elem(call.res.pre, r, t)
                     post  == Elem(call.res.post, r, t)
                     s     == Elem(call.res.spikes, r, t)
                 IN  /\ 10 * pre = CallBeta(r) * vprev + 10 * Elem(call.x, r, t)
                     /\ IF KwGet(kwargs, "integrator", FALSE)
                        THEN post = pre
                        ELSE /\ s = 1 => post = pre - Unit
                             /\ s = 0 => post = pre
           /\ ( /\ ~KwGet(kwargs, "integrator", FALSE)
                /\ CallBeta(r) = 9
                /\ CallV0(r) = 0
                /\ \A t \in 1..3 : Elem(call.x, r, t) = Tenth(5) )
              => /\ Elem(call.res.pre, r, 1) = (5 * Unit) \div 10
                 /\ Elem(call.res.pre, r, 2) = (95 * Unit) \div 100
                 /\ Elem(call.res.pre, r, 3) = (1355 * Unit) \div 1000
                 /\ Elem(call.res.spikes, r, 1) = 0
                 /\ Elem(call.res.spikes, r, 2) = 0
                 /\ Elem(call.res.spikes, r, 3) = 1
                 /\ Elem(call.res.post, r, 3) = (355 * Unit) \div 1000

\* the scenario: beta 0.9, constant current 0.5, no initial potential, resetting
C6_Witness ==
    /\ phase = "ready" /\ self._method = METHOD_STANDARD /\ CallOk
    /\ ~KwGet(kwargs, "integrator", FALSE)
    /\ \E r \in CallRows :
          /\ CallBeta(r) = 9
          /\ CallV0(r) = 0
          /\ \A t \in 1..CallT : Elem(call.x, r, t) = Tenth(5)
          /\ Elem(call.res.spikes, r, 3) = 1
          /\ Elem(call.res.post, r, 3) = Elem(call.res.pre, r, 3) - Unit

\* C7: under every strategy the spike function's forward value is 0 or 1 at every
\* (batch item, neuron, timestep), and it is 1 exactly when its input, the
\* potential minus the threshold, is >= 0; the emitted spike is 0 or 1 too.
C7_SpikeIsBinaryStep ==
    CallOk =>
        \A r \in CallRows, t \in 1..CallT :
           LET u == Elem(call.res.pre, r, t) - Threshold
           IN  /\ Elem(call.res.raw, r, t) \in {0, 1}
               /\ Elem(call.res.spikes, r, t) \in {0, 1}
               /\ Elem(call.res.raw, r, t) = 1 <=> u >= 0

\* a potential exactly at the threshold (u = 0) that spikes
C7_Witness ==
    /\ CallOk
    /\ \E r \in CallRows, t \in 1..CallT :
          /\ Elem(call.res.pre, r, t) = Threshold
          /\ Elem(call.res.raw, r, t) = 1
          /\ Elem(call.res.spikes, r, t) = 1

IntegratorReference == MethodStandard(CallT, None, 0, FALSE, TRUE, None)

ConvIdx(d) == 0..(conv.current.shape[d] - 1)

\* C10: with flatten disabled, the current at (b, n, t, h, w) is fed to the
\* strategy as neuron n*H*W + h*W + w at time t, the strategy's output for that
\* neuron and time is returned at (b, n, t, h, w), and the output has the shape
\* of the current.
C10_ConvReshapeRoundTrip ==
    (conv # None /\ conv.out # None /\ ~self._flatten) =>
        LET H == conv.current.shape[4]
            W == conv.current.shape[5]
        IN  /\ conv.out.shape = conv.current.shape
            /\ conv.fed.shape = <<conv.current.shape[1],
                                  conv.current.shape[2] * H * W,
                                  conv.current.shape[3]>>
            /\ \A b \in ConvIdx(1), n \in ConvIdx(2), t \in ConvIdx(3),
                  h \in ConvIdx(4), w \in ConvIdx(5) :
                  /\ At(conv.fed, <<b, n * H * W + h * W + w, t>>)
                        = At(conv.current, <<b, n, t, h, w>>)
                  /\ At(conv.out, <<b, n, t, h, w>>)
                        = At(call.res.ret, <<b, n * H * W + h * W + w, t>>)

\* a convolutional call with flatten disabled whose output holds different values
C10_Witness ==
    /\ conv # None /\ conv.out # None /\ ~self._flatten
    /\ conv.out.shape = ConvShape
    /\ \E i \in 1..Len(conv.out.data), j \in 1..Len(conv.out.data) :
          conv.out.data[i] # conv.out.data[j]

====
